---- MODULE Spec2Model ----
(***************************************************************************)
(* rquickjs: the Context / Ctx layer (src/context/mod.rs), the Error       *)
(* bridge (src/lib.rs) and Array (src/value/array.rs).                     *)
(*                                                                         *)
(* Spec       threads issuing gated operations on Contexts of one Runtime  *)
(* SpecToken  the operations of a Ctx inside one `with` invocation         *)
(* SpecBridge Error::from_js, Error::into_js and Error::throw              *)
(***************************************************************************)
EXTENDS Integers, Sequences, FiniteSets, TLC

\* ---------------------------------------------------------------- bounds
NumThreads == 2
NumContexts == 2
MaxBodyOps == 1

Threads == 1..NumThreads
Contexts == 1..NumContexts

VARIABLES
  lockOwner,   \* the threads holding a MutexGuard of Context.rt ({} when unlocked)
  poisoned,    \* the poison flag of that std::sync::Mutex
  ctxState,    \* per native JSContext: "unborn", "live", "freed", "leaked"
  pc,          \* per thread: position inside the operation it runs
  op,          \* per thread: the operation it runs, [kind, ctx]
  res,         \* per thread: how its last operation ended
  bodyOps,     \* per thread: native calls made by the running closure
  ctxValue,    \* per Context: whether the Rust value exists
  rtHandle,    \* whether the Runtime handle exists
  arc,         \* strong count of the Arc<Mutex<runtime::Inner>>
  engine,      \* the native runtime: "alive" or "destroyed"
  frees,       \* per native JSContext: calls of JS_FreeContext made on it
  exc,         \* the pending-exception slot of the context a Ctx is on
  last,        \* the last operation made through the Ctx: inputs and result
  globals,     \* the names scripts have defined on the global object
  brOp,        \* the last call into the Error bridge
  brIn,        \* its input
  brOut,       \* its result
  arr,         \* the javascript array an Array wraps: [len, elems]
  arOp,        \* the last step made on the array
  arIn,        \* its input
  arOut        \* its result

rtVars == <<ctxValue, rtHandle, arc, engine, frees>>

gateVars == <<lockOwner, poisoned, ctxState, pc, op, res, bodyOps, rtVars>>

tokVars == <<exc, last, globals>>

brVars == <<brOp, brIn, brOut>>

arVars == <<arr, arOp, arIn, arOut>>

vars == <<gateVars, tokVars, brVars, arVars>>

NoOp == [kind |-> "none", ctx |-> 0]

\* Context is Send but not Sync (raw pointer field): one thread at a time
\* has the Context value or a borrow of it.
ContextFree(c) == \A u \in Threads : op[u].ctx # c

InitGate ==
  /\ lockOwner = {}
  /\ poisoned = FALSE
  /\ ctxState = [c \in Contexts |-> "unborn"]
  /\ pc = [t \in Threads |-> "idle"]
  /\ op = [t \in Threads |-> NoOp]
  /\ res = [t \in Threads |-> "none"]
  /\ bodyOps = [t \in Threads |-> 0]
  /\ ctxValue = [c \in Contexts |-> FALSE]
  /\ rtHandle = TRUE
  /\ arc = 1
  /\ frees = [c \in Contexts |-> 0]
  /\ engine = "alive"

\* ------------------------------------------------ entering an operation
Call(t, k, c) ==
  /\ pc[t] = "idle"
  /\ ContextFree(c)
  /\ pc' = [pc EXCEPT ![t] = "lock"]
  /\ op' = [op EXCEPT ![t] = [kind |-> k, ctx |-> c]]
  /\ res' = [res EXCEPT ![t] = "none"]
  /\ UNCHANGED <<lockOwner, poisoned, ctxState, bodyOps, rtVars, tokVars, brVars, arVars>>

\* base and full borrow the Runtime handle
base(t, c) == rtHandle /\ ~ctxValue[c] /\ ctxState[c] = "unborn" /\ Call(t, "base", c)

full(t, c) == rtHandle /\ ~ctxValue[c] /\ ctxState[c] = "unborn" /\ Call(t, "full", c)

set_max_stack_size(t, c) == ctxValue[c] /\ Call(t, "set_max_stack_size", c)

enable_big_num_ext(t, c) == ctxValue[c] /\ Call(t, "enable_big_num_ext", c)

with(t, c) == ctxValue[c] /\ Call(t, "with", c)

\* a drop that frees the context without taking the gate
drop_unlocked(t, c) ==
  /\ ctxValue[c]
  /\ pc[t] = "idle"
  /\ ContextFree(c)
  /\ pc' = [pc EXCEPT ![t] = "native"]
  /\ op' = [op EXCEPT ![t] = [kind |-> "drop", ctx |-> c]]
  /\ res' = [res EXCEPT ![t] = "none"]
  /\ UNCHANGED <<lockOwner, poisoned, ctxState, bodyOps, rtVars, tokVars, brVars, arVars>>

drop(t, c) == ctxValue[c] /\ Call(t, "drop", c)

\* ------------------------------------------------ the Arc around the engine
\* One strong reference goes away; the engine is destroyed with the last.
ArcRelease ==
  /\ arc' = arc - 1
  /\ engine' = IF arc - 1 = 0 THEN "destroyed" ELSE engine

\* The Context value c stops existing: its `rt` field is dropped.
ContextGone(c) ==
  /\ ctxValue' = [ctxValue EXCEPT ![c] = FALSE]
  /\ ArcRelease
  /\ UNCHANGED <<rtHandle, frees>>

\* The Runtime handle is dropped; nobody borrows it.
Runtime_drop(t) ==
  /\ rtHandle
  /\ pc[t] = "idle"
  /\ \A u \in Threads : op[u].kind \notin {"base", "full"}
  /\ rtHandle' = FALSE
  /\ ArcRelease
  /\ UNCHANGED <<lockOwner, poisoned, ctxState, pc, op, res, bodyOps, ctxValue, frees,
                 tokVars, brVars, arVars>>

\* ------------------------------------------------ `.lock().unwrap()`
\* lock() blocks until the mutex is free.
LockAvailableNoWait(t) == TRUE

LockAvailable(t) == lockOwner = {}

\* A poisoned mutex makes lock() return Err(PoisonError): unwrap() panics and
\* the guard inside the error is dropped, so the operation never runs.  When
\* the operation is Drop, the native context is never freed and the fields of
\* the Context are dropped by the unwinding.
lock_unwrap(t) ==
  /\ pc[t] = "lock"
  /\ LockAvailable(t)
  /\ IF poisoned
       THEN /\ pc' = [pc EXCEPT ![t] = "panicked"]
            /\ op' = [op EXCEPT ![t] = NoOp]
            /\ res' = [res EXCEPT ![t] = "PoisonError"]
            /\ IF op[t].kind = "drop"
                 THEN /\ ctxState' = [ctxState EXCEPT ![op[t].ctx] = "leaked"]
                      /\ ContextGone(op[t].ctx)
                 ELSE UNCHANGED <<ctxState, rtVars>>
            /\ UNCHANGED lockOwner
       ELSE /\ lockOwner' = lockOwner \cup {t}
            /\ pc' = [pc EXCEPT ![t] = IF op[t].kind = "with" THEN "body" ELSE "native"]
            /\ UNCHANGED <<op, res, ctxState, rtVars>>
  /\ bodyOps' = [bodyOps EXCEPT ![t] = 0]
  /\ UNCHANGED <<poisoned, tokVars, brVars, arVars>>

\* ------------------------------------------------ the native calls
\* a creation that hands out a Context whatever the native call returned
JS_NewContext_unchecked(t) ==
  /\ pc[t] = "native"
  /\ op[t].kind \in {"base", "full"}
  /\ \E null \in BOOLEAN :
       ctxState' = [ctxState EXCEPT ![op[t].ctx] = IF null THEN "unborn" ELSE "live"]
  /\ ctxValue' = [ctxValue EXCEPT ![op[t].ctx] = TRUE]
  /\ arc' = arc + 1
  /\ res' = [res EXCEPT ![t] = "Ok"]
  /\ pc' = [pc EXCEPT ![t] = "unlock"]
  /\ UNCHANGED <<lockOwner, poisoned, op, bodyOps, rtHandle, engine, frees, tokVars, brVars, arVars>>

\* a creation whose Context holds no strong reference to the engine
JS_NewContext_unowned(t) ==
  /\ pc[t] = "native"
  /\ op[t].kind \in {"base", "full"}
  /\ \E null \in BOOLEAN :
       /\ ctxState' = [ctxState EXCEPT ![op[t].ctx] = IF null THEN "unborn" ELSE "live"]
       /\ ctxValue' = [ctxValue EXCEPT ![op[t].ctx] = ~null]
       /\ res' = [res EXCEPT ![t] = IF null THEN "Err(Allocation)" ELSE "Ok"]
  /\ pc' = [pc EXCEPT ![t] = "unlock"]
  /\ UNCHANGED <<lockOwner, poisoned, op, bodyOps, rtHandle, arc, engine, frees,
                 tokVars, brVars, arVars>>

\* JS_NewContextRaw / JS_NewContext: null on allocation failure; otherwise
\* Ok(Context { ctx, rt: runtime.inner.clone() }).
JS_NewContext(t) ==
  /\ pc[t] = "native"
  /\ op[t].kind \in {"base", "full"}
  /\ \E null \in BOOLEAN :
       /\ ctxState' = [ctxState EXCEPT ![op[t].ctx] = IF null THEN "unborn" ELSE "live"]
       /\ ctxValue' = [ctxValue EXCEPT ![op[t].ctx] = ~null]
       /\ arc' = IF null THEN arc ELSE arc + 1
       /\ res' = [res EXCEPT ![t] = IF null THEN "Err(Allocation)" ELSE "Ok"]
  /\ pc' = [pc EXCEPT ![t] = "unlock"]
  /\ UNCHANGED <<lockOwner, poisoned, op, bodyOps, rtHandle, engine, frees, tokVars, brVars, arVars>>

JS_SetMaxStackSize(t) ==
  /\ pc[t] = "native"
  /\ op[t].kind = "set_max_stack_size"
  /\ pc' = [pc EXCEPT ![t] = "unlock"]
  /\ res' = [res EXCEPT ![t] = "Ok"]
  /\ UNCHANGED <<lockOwner, poisoned, ctxState, op, bodyOps, rtVars, tokVars, brVars, arVars>>

JS_EnableBignumExt(t) ==
  /\ pc[t] = "native"
  /\ op[t].kind = "enable_big_num_ext"
  /\ pc' = [pc EXCEPT ![t] = "unlock"]
  /\ res' = [res EXCEPT ![t] = "Ok"]
  /\ UNCHANGED <<lockOwner, poisoned, ctxState, op, bodyOps, rtVars, tokVars, brVars, arVars>>

JS_FreeContext(t) ==
  /\ pc[t] = "native"
  /\ op[t].kind = "drop"
  /\ ctxState' = [ctxState EXCEPT ![op[t].ctx] = "freed"]
  /\ pc' = [pc EXCEPT ![t] = "unlock"]
  /\ res' = [res EXCEPT ![t] = "Ok"]
  /\ frees' = [frees EXCEPT ![op[t].ctx] = @ + 1]
  /\ UNCHANGED <<lockOwner, poisoned, op, bodyOps, ctxValue, rtHandle, arc, engine,
                 tokVars, brVars, arVars>>

\* ------------------------------------------------ the closure of `with`
\* f(ctx): a native call made through the Ctx.
f_native(t) ==
  /\ pc[t] = "body"
  /\ bodyOps[t] < MaxBodyOps
  /\ bodyOps' = [bodyOps EXCEPT ![t] = @ + 1]
  /\ UNCHANGED <<lockOwner, poisoned, ctxState, pc, op, res, rtVars, tokVars, brVars, arVars>>

f_return(t) ==
  /\ pc[t] = "body"
  /\ pc' = [pc EXCEPT ![t] = "unlock"]
  /\ res' = [res EXCEPT ![t] = "Ok"]
  /\ UNCHANGED <<lockOwner, poisoned, ctxState, op, bodyOps, rtVars, tokVars, brVars, arVars>>

\* Unwinding out of f drops the guard while the thread is panicking: the
\* mutex is unlocked and poisoned.
UnwindAs(t, how) ==
  /\ lockOwner' = lockOwner \ {t}
  /\ poisoned' = TRUE
  /\ pc' = [pc EXCEPT ![t] = "panicked"]
  /\ op' = [op EXCEPT ![t] = NoOp]
  /\ res' = [res EXCEPT ![t] = how]
  /\ UNCHANGED <<ctxState, bodyOps, rtVars, tokVars, brVars, arVars>>

Unwind(t) == UnwindAs(t, "unwound")

f_panic(t) ==
  /\ pc[t] = "body"
  /\ Unwind(t)

\* f calls a gated operation of the same Runtime: lock() on a std Mutex the
\* thread already holds never returns; it panics or deadlocks (unspecified).
f_gated(t) ==
  /\ pc[t] = "body"
  /\ \/ UnwindAs(t, "relock panic")
     \/ /\ pc' = [pc EXCEPT ![t] = "deadlocked"]
        /\ UNCHANGED <<lockOwner, poisoned, ctxState, op, res, bodyOps, rtVars,
                       tokVars, brVars, arVars>>

\* ------------------------------------------------ mem::drop(guard)
\* an operation that returns with the guard still held
drop_guard_kept(t) ==
  /\ pc[t] = "unlock"
  /\ pc' = [pc EXCEPT ![t] = "idle"]
  /\ op' = [op EXCEPT ![t] = NoOp]
  /\ IF op[t].kind = "drop" THEN ContextGone(op[t].ctx) ELSE UNCHANGED rtVars
  /\ UNCHANGED <<lockOwner, poisoned, ctxState, res, bodyOps, tokVars, brVars, arVars>>

\* The guard is dropped and the operation returns; after Drop::drop the
\* fields of the Context are dropped.
drop_guard(t) ==
  /\ pc[t] = "unlock"
  /\ lockOwner' = lockOwner \ {t}
  /\ pc' = [pc EXCEPT ![t] = "idle"]
  /\ op' = [op EXCEPT ![t] = NoOp]
  /\ IF op[t].kind = "drop" THEN ContextGone(op[t].ctx) ELSE UNCHANGED rtVars
  /\ UNCHANGED <<poisoned, ctxState, res, bodyOps, tokVars, brVars, arVars>>

Next ==
  \E t \in Threads :
    \/ \E c \in Contexts : base(t, c)
    \/ \E c \in Contexts : full(t, c)
    \/ \E c \in Contexts : set_max_stack_size(t, c)
    \/ \E c \in Contexts : enable_big_num_ext(t, c)
    \/ \E c \in Contexts : with(t, c)
    \/ \E c \in Contexts : drop(t, c)
    \/ Runtime_drop(t)
    \/ lock_unwrap(t)
    \/ JS_NewContext(t)
    \/ JS_SetMaxStackSize(t)
    \/ JS_EnableBignumExt(t)
    \/ JS_FreeContext(t)
    \/ f_native(t)
    \/ f_return(t)
    \/ f_panic(t)
    \/ f_gated(t)
    \/ drop_guard(t)

\* ======================================================================
\* The host Error type and the engine values it is bridged to (src/lib.rs)
\* ======================================================================

\* One record shape for every kind of lib.rs `enum Error`; `some` tells
\* message: Some(..) from message: None in FromJs / IntoJs.
Err0 ==
  [kind |-> "", message |-> "", file |-> "", line |-> 0, stack |-> "",
   from |-> "", to |-> "", some |-> FALSE]

Allocation == [Err0 EXCEPT !.kind = "Allocation"]

InvalidString == [Err0 EXCEPT !.kind = "InvalidString"]

Utf8 == [Err0 EXCEPT !.kind = "Utf8"]

Unknown == [Err0 EXCEPT !.kind = "Unknown"]

Exception(m, f, l, s) ==
  [Err0 EXCEPT !.kind = "Exception", !.message = m, !.file = f, !.line = l, !.stack = s]

FromJs(from, to) == [Err0 EXCEPT !.kind = "FromJs", !.from = from, !.to = to]

FromJsMsg(from, to, m) == [FromJs(from, to) EXCEPT !.some = TRUE, !.message = m]

IntoJs(from, to) == [Err0 EXCEPT !.kind = "IntoJs", !.from = from, !.to = to]

IO == [Err0 EXCEPT !.kind = "IO"]

\* the display(..) strings of quick_error!, as format!("{}", self) builds them
Display(e) ==
  CASE e.kind = "Allocation" -> "Allocation failed while creating object"
    [] e.kind = "InvalidString" ->
         "string contained internal null bytes: " \o "nul byte found in provided data"
    [] e.kind = "Utf8" -> "Conversion from string failed: " \o "invalid utf-8 sequence"
    [] e.kind = "Unknown" -> "quickjs library created a unknown error"
    [] e.kind = "Exception" ->
         "exception generated by quickjs: [" \o e.file \o "]:" \o ToString(e.line)
           \o " " \o e.message \o "\n" \o e.stack
    [] e.kind = "FromJs" ->
         "error converting from js from type '" \o e.from \o "', to '" \o e.to \o "': "
           \o (IF e.some THEN e.message ELSE "")
    [] e.kind = "IntoJs" ->
         "error converting from type '" \o e.from \o "', to '" \o e.to \o "': "
           \o (IF e.some THEN e.message ELSE "")
    [] e.kind = "IO" -> "IO Error: " \o "broken pipe"
    [] OTHER -> ""

to_cstring(e) == Display(e)

\* ---- engine values: one record shape; `class` is "" for a plain object and
\* the error class for an object JS_IsError accepts; `props` maps the names
\* of the own properties to their slots.
NoProps == [n \in {} |-> 0]

Js(tag) == [tag |-> tag, i |-> 0, s |-> "", class |-> "", props |-> NoProps]

JsUndefined == Js("undefined")

JsNull == Js("null")

JsSymbol == Js("symbol")

JsModule == Js("module")

JS_EXCEPTION == Js("exception")

JsInt(n) == [Js("int") EXCEPT !.i = n]

JsString(str) == [Js("string") EXCEPT !.s = str]

JsObject(class, props) == [Js("object") EXCEPT !.class = class, !.props = props]

\* a property slot: a string, an int, or an accessor whose getter throws
PStr(str) == [st |-> "present", tag |-> "string", s |-> str, i |-> 0]

PInt(n) == [st |-> "present", tag |-> "int", s |-> "", i |-> n]

PThrows == [st |-> "throws", tag |-> "", s |-> "", i |-> 0]

PAbsent == [st |-> "absent", tag |-> "", s |-> "", i |-> 0]

PropNames == {"message", "fileName", "lineNumber", "stack"}

Ok(v) == [ok |-> TRUE, val |-> v]

Err(e) == [ok |-> FALSE, val |-> e]

type_name(v) == IF v.tag = "int" THEN "number" ELSE v.tag

\* Object::from_js: only an object converts to Object
Object_from_js(v) ==
  IF v.tag = "object" THEN Ok(v) ELSE Err(FromJs(type_name(v), "object"))

is_error(obj) == obj.class # ""

\* Object::get::<_, T>(key): the property read and converted to T, an error
\* when the property is absent, its read throws or it is no T
Object_get(obj, key, ty) ==
  IF key \notin DOMAIN obj.props THEN Err(FromJs("undefined", ty))
  ELSE LET p == obj.props[key] IN
       IF p.st = "throws" THEN Err(Exception("getter threw", "", -1, ""))
       ELSE IF p.tag # ty THEN Err(FromJs(p.tag, ty))
       ELSE Ok(p)

unwrap_or_str(r, dflt) == IF r.ok THEN r.val.s ELSE dflt

unwrap_or_int(r, dflt) == IF r.ok THEN r.val.i ELSE dflt

\* ---- impl FromJs for Error
Error_from_js_strict(value) ==
  LET o == Object_from_js(value) IN
  IF ~o.ok THEN Err(o.val)
  ELSE IF is_error(o.val)
    THEN LET m == Object_get(o.val, "message", "string")
             f == Object_get(o.val, "fileName", "string")
             l == Object_get(o.val, "lineNumber", "int")
             s == Object_get(o.val, "stack", "string")
         IN IF ~m.ok THEN Err(m.val)
            ELSE IF ~f.ok THEN Err(f.val)
            ELSE IF ~l.ok THEN Err(l.val)
            ELSE IF ~s.ok THEN Err(s.val)
            ELSE Ok(Exception(m.val.s, f.val.s, l.val.i, s.val.s))
    ELSE Err(FromJs("object", "error"))

Error_from_js_any(value) ==
  LET o == Object_from_js(value) IN
  IF ~o.ok THEN Err(o.val)
  ELSE Ok(Exception(unwrap_or_str(Object_get(o.val, "message", "string"), ""),
                    unwrap_or_str(Object_get(o.val, "fileName", "string"), ""),
                    unwrap_or_int(Object_get(o.val, "lineNumber", "int"), -1),
                    unwrap_or_str(Object_get(o.val, "stack", "string"), "")))

Error_from_js(value) ==
  LET o == Object_from_js(value) IN
  IF ~o.ok THEN Err(o.val)
  ELSE IF is_error(o.val)
    THEN Ok(Exception(unwrap_or_str(Object_get(o.val, "message", "string"), ""),
                      unwrap_or_str(Object_get(o.val, "fileName", "string"), ""),
                      unwrap_or_int(Object_get(o.val, "lineNumber", "int"), -1),
                      unwrap_or_str(Object_get(o.val, "stack", "string"), "")))
    ELSE Err(FromJs("object", "error"))

\* ---- impl IntoJs for &Error
\* the error a failed native call is turned into
NativeFailure == Exception("out of memory", "", -1, "")

\* the obj.set(..) calls of the match, in program order
SetsOfLoose(self) ==
  IF self.kind = "Exception"
    THEN << <<"message", PStr(self.message)>>, <<"fileName", PStr(self.file)>>,
            <<"lineNumber", PInt(self.line)>>, <<"stack", PStr(self.stack)>> >>
    ELSE << <<"message", PStr(Display(self))>> >>

SetsOf(self) ==
  IF self.kind = "Exception"
    THEN (IF self.message # "" THEN << <<"message", PStr(self.message)>> >> ELSE <<>>)
         \o (IF self.file # "" THEN << <<"fileName", PStr(self.file)>> >> ELSE <<>>)
         \o (IF self.line >= 0 THEN << <<"lineNumber", PInt(self.line)>> >> ELSE <<>>)
         \o (IF self.stack # "" THEN << <<"stack", PStr(self.stack)>> >> ELSE <<>>)
    ELSE << <<"message", PStr(Display(self))>> >>

\* newFails: JS_NewError returns the exception sentinel; setFails: the names
\* whose obj.set fails.  `?` returns at the first failure.
into_js(self, newFails, setFails) ==
  IF newFails
    THEN [ok |-> FALSE, val |-> JS_EXCEPTION, err |-> NativeFailure, written |-> <<>>]
    ELSE LET sets == SetsOf(self)
             bad == {k \in 1..Len(sets) : sets[k][1] \in setFails}
             n == IF bad = {} THEN Len(sets)
                  ELSE (CHOOSE k \in bad : \A j \in bad : k <= j) - 1
             done == SubSeq(sets, 1, n)
             props == [name \in {done[k][1] : k \in 1..n} |->
                         done[CHOOSE k \in 1..n : done[k][1] = name][2]]
         IN [ok |-> bad = {}, val |-> JsObject("Error", props),
             err |-> IF bad = {} THEN Err0 ELSE NativeFailure, written |-> done]

\* ---- Error::throw
\* what the engine's throw primitives leave pending
Thrown(native, class, text, val) ==
  [panic |-> FALSE, native |-> native, text |-> text,
   pending |-> IF native = "JS_Throw" THEN val
               ELSE JsObject(class, [n \in {"message"} |-> PStr(text)]),
   ret |-> JS_EXCEPTION]

Panicked == [panic |-> TRUE, native |-> "", text |-> "", pending |-> JsUndefined,
             ret |-> JsUndefined]

throw_catchall_internal(self, newFails, setFails) ==
  CASE self.kind = "Allocation" ->
         Thrown("JS_ThrowOutOfMemory", "InternalError", "out of memory", JsUndefined)
    [] self.kind \in {"InvalidString", "Utf8", "FromJs", "IntoJs"} ->
         Thrown("JS_ThrowTypeError", "TypeError", to_cstring(self), JsUndefined)
    [] self.kind = "Exception" ->
         LET value == into_js(self, newFails, setFails) IN
         IF value.ok THEN Thrown("JS_Throw", "", "", value.val) ELSE Panicked
    [] OTHER ->
         Thrown("JS_ThrowInternalError", "InternalError", to_cstring(self), JsUndefined)

throw(self, newFails, setFails) ==
  CASE self.kind = "Allocation" ->
         Thrown("JS_ThrowOutOfMemory", "InternalError", "out of memory", JsUndefined)
    [] self.kind \in {"InvalidString", "Utf8", "FromJs", "IntoJs"} ->
         Thrown("JS_ThrowTypeError", "TypeError", to_cstring(self), JsUndefined)
    [] self.kind = "Unknown" ->
         Thrown("JS_ThrowInternalError", "InternalError", to_cstring(self), JsUndefined)
    [] OTHER ->
         LET value == into_js(self, newFails, setFails) IN
         IF value.ok THEN Thrown("JS_Throw", "", "", value.val) ELSE Panicked

\* ======================================================================
\* The operations of a Ctx inside one `with` invocation (context/mod.rs)
\* ======================================================================

\* values a host scalar result is written as
HBool(b) == [Js("bool") EXCEPT !.i = IF b THEN 1 ELSE 0]

HFloat(n) == [Js("float") EXCEPT !.i = n]

\* what the engine throws
TypeErrorObj(m) == JsObject("TypeError", [n \in {"message"} |-> PStr(m)])

RangeErrorObj(m) == JsObject("RangeError", [n \in {"message"} |-> PStr(m)])

OutOfMemoryObj == JsObject("InternalError", [n \in {"message"} |-> PStr("out of memory")])

BoomObj ==
  JsObject("Error",
    [n \in {"message", "stack"} |->
       IF n = "message" THEN PStr("boom") ELSE PStr("    at <eval> (eval_script)")])

SyntaxErrorObj(file) ==
  JsObject("SyntaxError",
    [n \in {"message", "fileName", "lineNumber"} |->
       CASE n = "message" -> PStr("unexpected token")
         [] n = "fileName" -> PStr(file)
         [] OTHER -> PInt(1)])

\* an object whose valueOf / toString throws the number 1
ThrowingObj == JsObject("", [n \in {"valueOf"} |-> PThrows])

Faults == {"none", "oom", "silent"}

\* a native call that fails for lack of memory, with (oom) or without
\* (silent) an exception left pending
NativeFault(fault) ==
  [status |-> -1, val |-> JS_EXCEPTION,
   thrown |-> IF fault = "oom" THEN <<OutOfMemoryObj>> ELSE <<>>, defines |-> {}]

NativeOk(v) == [status |-> 0, val |-> v, thrown |-> <<>>, defines |-> {}]

NativeThrows(v) ==
  [status |-> -1, val |-> JS_EXCEPTION, thrown |-> <<v>>, defines |-> {}]

Scripts ==
  {"1+1", "Symbol()", "throw new Error('boom')", "throw 1", "let a =",
   "globalThis.x = 1"}

\* qjs::JS_Eval of a script text under the flags of eval (global) or of
\* compile (module, compile only): with JS_EVAL_FLAG_COMPILE_ONLY the body is
\* parsed and never run
JS_Eval(script, file, compileOnly, fault) ==
  IF fault # "none" THEN NativeFault(fault)
  ELSE IF script = "let a =" THEN NativeThrows(SyntaxErrorObj(file))
  ELSE IF compileOnly THEN NativeOk(JsModule)
  ELSE CASE script = "1+1" -> NativeOk(JsInt(2))
         [] script = "globalThis.x = 1" -> [NativeOk(JsInt(1)) EXCEPT !.defines = {"x"}]
         [] script = "Symbol()" -> NativeOk(JsSymbol)
         [] script = "throw new Error('boom')" -> NativeThrows(BoomObj)
         [] OTHER -> NativeThrows(JsInt(1))

ToNumber(v) ==
  CASE v.tag = "int" -> NativeOk(v)
    [] v.tag = "string" /\ v.s = "42" -> NativeOk(JsInt(42))
    [] v.tag = "symbol" -> NativeThrows(TypeErrorObj("cannot convert symbol to number"))
    [] OTHER -> NativeThrows(JsInt(1))

\* qjs::JS_ToString, JS_ToInt32, JS_ToInt64, JS_ToIndex, JS_ToFloat64, JS_ToBool
JS_To(what, v, fault) ==
  IF fault # "none" THEN NativeFault(fault)
  ELSE CASE what = "String" ->
              (CASE v.tag = "int" -> NativeOk(JsString(ToString(v.i)))
                 [] v.tag = "string" -> NativeOk(v)
                 [] v.tag = "symbol" ->
                      NativeThrows(TypeErrorObj("cannot convert symbol to string"))
                 [] OTHER -> NativeThrows(JsInt(1)))
         [] what = "Index" ->
              LET n == ToNumber(v) IN
              IF n.status = 0 /\ n.val.i < 0
                THEN NativeThrows(RangeErrorObj("invalid array index")) ELSE n
         [] what = "Float64" ->
              LET n == ToNumber(v) IN
              IF n.status = 0 THEN NativeOk(HFloat(n.val.i)) ELSE n
         [] what = "Bool" ->
              [status |-> IF v.tag = "int" /\ v.i = 0 THEN 0 ELSE 1,
               val |-> JsUndefined, thrown |-> <<>>, defines |-> {}]
         [] OTHER -> ToNumber(v)

\* the pending-exception slot after a native call
Pending(slot, n) == IF n.thrown # <<>> THEN n.thrown ELSE slot

\* value::get_exception: take the pending exception out of the slot and
\* convert it through the bridge; Unknown when nothing is pending
get_exception(slot) ==
  IF slot = <<>> THEN [err |-> Unknown, exc |-> <<>>]
  ELSE [err |-> Error_from_js(slot[1]).val, exc |-> <<>>]

\* value::handle_exception
handle_exception(slot, val) ==
  IF val.tag # "exception" THEN [ok |-> TRUE, err |-> Err0, exc |-> slot]
  ELSE LET e == get_exception(slot) IN [ok |-> FALSE, err |-> e.err, exc |-> e.exc]

\* the result of a token operation: Ok(val) or Err(err), the slot it leaves
\* and what the native call did
TokOk(v, slot, n) ==
  [ok |-> TRUE, val |-> v, err |-> Err0, exc |-> slot,
   called |-> TRUE, status |-> n.status, native |-> n.val, thrown |-> n.thrown,
   defines |-> n.defines]

TokErr(e, slot, n) ==
  [ok |-> FALSE, val |-> JsUndefined, err |-> e, exc |-> slot,
   called |-> TRUE, status |-> n.status, native |-> n.val, thrown |-> n.thrown,
   defines |-> n.defines]

\* CString::new(bytes)? on bytes with an interior NUL: the NulError keeps the
\* rejected bytes, and nothing native was called
NulError(bytes) == [InvalidString EXCEPT !.message = bytes]

TokInvalidString(slot, bytes) ==
  [ok |-> FALSE, val |-> JsUndefined, err |-> NulError(bytes), exc |-> slot,
   called |-> FALSE, status |-> 0, native |-> JsUndefined, thrown |-> <<>>,
   defines |-> {}]

\* Ctx::_eval
eval_inner(slot, source, file, compileOnly, fault) ==
  IF source.nul THEN TokInvalidString(slot, source.script)
  ELSE LET n == JS_Eval(source.script, file, compileOnly, fault)
           h == handle_exception(Pending(slot, n), n.val)
       IN IF h.ok THEN TokOk(n.val, h.exc, n) ELSE TokErr(h.err, h.exc, n)

\* Value::from_js_value: every value kind of the engine has a variant
Value_from_js_value(v) == Ok(v)

\* V::from_js for the requested result types
CanRepresent(V, v) == V = "Value" \/ (V = "i32" /\ v.tag = "int")

V_from_js(V, v) ==
  IF CanRepresent(V, v) THEN Ok(v) ELSE Err(FromJs(type_name(v), V))

\* Ctx::eval
eval(slot, V, source, fault) ==
  LET r == eval_inner(slot, source, "eval_script", FALSE, fault) IN
  IF ~r.ok THEN r
  ELSE LET c == V_from_js(V, Value_from_js_value(r.val).val) IN
       IF c.ok THEN [r EXCEPT !.val = c.val]
       ELSE [r EXCEPT !.ok = FALSE, !.val = JsUndefined, !.err = c.val]

\* a compile that converts the source before the module name
compile_source_first(slot, source, name, fault) ==
  IF source.nul THEN TokInvalidString(slot, source.script)
  ELSE IF name.nul THEN TokInvalidString(slot, name.text)
  ELSE eval_inner(slot, source, name.text, TRUE, fault)

\* a compile without JS_EVAL_FLAG_COMPILE_ONLY
compile_and_run(slot, source, name, fault) ==
  IF name.nul THEN TokInvalidString(slot, name.text)
  ELSE eval_inner(slot, source, name.text, FALSE, fault)

\* Ctx::compile
compile(slot, source, name, fault) ==
  IF name.nul THEN TokInvalidString(slot, name.text)
  ELSE eval_inner(slot, source, name.text, TRUE, fault)

\* Ctx::coerce_string
coerce_string(slot, v, fault) ==
  LET n == JS_To("String", v, fault)
      h == handle_exception(Pending(slot, n), n.val)
  IN IF h.ok THEN TokOk(n.val, h.exc, n) ELSE TokErr(h.err, h.exc, n)

\* Ctx::coerce_i32, coerce_i64, coerce_u64, coerce_f64
coerce_num_unchecked(slot, what, v, fault) ==
  LET n == JS_To(what, v, fault) IN
  TokOk(IF n.status < 0 THEN (IF what = "Float64" THEN HFloat(0) ELSE JsInt(0)) ELSE n.val,
        Pending(slot, n), n)

coerce_num_undrained(slot, what, v, fault) ==
  LET n == JS_To(what, v, fault) IN
  IF n.status < 0 THEN TokErr(Unknown, Pending(slot, n), n)
  ELSE TokOk(n.val, Pending(slot, n), n)

coerce_num(slot, what, v, fault) ==
  LET n == JS_To(what, v, fault) IN
  IF n.status < 0
    THEN LET e == get_exception(Pending(slot, n)) IN TokErr(e.err, e.exc, n)
    ELSE TokOk(n.val, Pending(slot, n), n)

\* Ctx::coerce_bool
coerce_bool(slot, v, fault) ==
  LET n == JS_To("Bool", v, fault) IN
  IF n.status < 0
    THEN LET e == get_exception(Pending(slot, n)) IN TokErr(e.err, e.exc, n)
    ELSE TokOk(HBool(n.status = 1), Pending(slot, n), n)

\* ---------------------------------------------------------------- bridge runs
Messages == {"", "boom"}
Files == {"", "a.js"}
Lines == {-2, -1, 0, 7}
Stacks == {"", "at f"}

\* the objects a script can throw: each of the four properties is absent,
\* an accessor that throws, or present
ErrorSlots ==
  [message : {PAbsent, PThrows} \cup {PStr(m) : m \in Messages},
   fileName : {PAbsent, PThrows, PStr("a.js")},
   lineNumber : {PAbsent, PThrows} \cup {PInt(l) : l \in Lines \ {-1}},
   stack : {PAbsent, PThrows, PStr("at f")}]

ObjectWith(class, slots) ==
  JsObject(class, [n \in {m \in PropNames : slots[m].st # "absent"} |-> slots[n]])

ThrownValues ==
  {ObjectWith(class, slots) : class \in {"", "Error"}, slots \in ErrorSlots}
    \cup {JsInt(1), JsString("oops"), JsNull, JsUndefined}

HostErrors ==
  {Allocation, InvalidString, Utf8, Unknown, IO, FromJs("object", "error"),
   FromJsMsg("string", "i32", "not a number"), IntoJs("Vec", "array")}
    \cup {Exception(m, f, l, s) : m \in Messages, f \in Files, l \in Lines, s \in Stacks}

NoResult == Err(Err0)

NoInto == [ok |-> FALSE, val |-> JsUndefined, err |-> Err0, written |-> <<>>]

BridgeIn(v, e, nf, sf) == [val |-> v, err |-> e, newFails |-> nf, setFails |-> sf]

InitBridge ==
  /\ brOp = "none"
  /\ brIn = BridgeIn(JsUndefined, Err0, FALSE, {})
  /\ brOut = [r |-> NoResult, j |-> NoInto, t |-> Panicked]

call_from_js ==
  \E v \in ThrownValues :
    /\ brOp = "none"
    /\ brOp' = "from_js"
    /\ brIn' = BridgeIn(v, Err0, FALSE, {})
    /\ brOut' = [r |-> Error_from_js(v), j |-> NoInto, t |-> Panicked]
    /\ UNCHANGED <<gateVars, tokVars, arVars>>

call_into_js ==
  \E e \in HostErrors, nf \in BOOLEAN, sf \in SUBSET PropNames :
    /\ brOp = "none"
    /\ brOp' = "into_js"
    /\ brIn' = BridgeIn(JsUndefined, e, nf, sf)
    /\ brOut' = [r |-> NoResult, j |-> into_js(e, nf, sf), t |-> Panicked]
    /\ UNCHANGED <<gateVars, tokVars, arVars>>

call_throw ==
  \E e \in HostErrors, nf \in BOOLEAN, sf \in SUBSET PropNames :
    /\ brOp = "none"
    /\ brOp' = "throw"
    /\ brIn' = BridgeIn(JsUndefined, e, nf, sf)
    /\ brOut' = [r |-> NoResult, j |-> NoInto, t |-> throw(e, nf, sf)]
    /\ UNCHANGED <<gateVars, tokVars, arVars>>

\* into_js, throw, catch (the pending exception is taken back) and from_js
call_round_trip ==
  \E e \in HostErrors, nf \in BOOLEAN, sf \in SUBSET PropNames :
    LET t == throw(e, nf, sf) IN
    /\ brOp = "none"
    /\ brOp' = "round_trip"
    /\ brIn' = BridgeIn(JsUndefined, e, nf, sf)
    /\ brOut' = [r |-> IF t.panic THEN NoResult ELSE Error_from_js(t.pending),
                 j |-> NoInto, t |-> t]
    /\ UNCHANGED <<gateVars, tokVars, arVars>>

\* ---------------------------------------------------------------- token runs
Sources == [script : Scripts, nul : BOOLEAN]

ModuleNames == [text : {"test_mod"}, nul : BOOLEAN]

ReqTypes == {"Value", "i32"}

CoerceInputs == {JsInt(2), JsInt(0), JsInt(-1), JsString("42"), JsSymbol, ThrowingObj}

TokIn(V, source, name, v, fault) ==
  [V |-> V, source |-> source, name |-> name, v |-> v, fault |-> fault]

NoSource == [script |-> "", nul |-> FALSE]

NoName == [text |-> "", nul |-> FALSE]

InitToken ==
  /\ exc = <<>>
  /\ globals = {}
  /\ last = [op |-> "none", in |-> TokIn("", NoSource, NoName, JsUndefined, "none"),
             r |-> TokInvalidString(<<>>, ""), g0 |-> {}, e0 |-> <<>>]

tok_eval ==
  \E V \in ReqTypes, source \in Sources, fault \in Faults :
    LET r == eval(exc, V, source, fault) IN
    /\ last' = [op |-> "eval", in |-> TokIn(V, source, NoName, JsUndefined, fault),
                r |-> r, g0 |-> globals, e0 |-> exc]
    /\ exc' = r.exc
    /\ globals' = globals \cup r.defines
    /\ UNCHANGED <<gateVars, brVars, arVars>>

tok_compile ==
  \E source \in Sources, name \in ModuleNames, fault \in Faults :
    LET r == compile(exc, source, name, fault) IN
    /\ last' = [op |-> "compile", in |-> TokIn("", source, name, JsUndefined, fault),
                r |-> r, g0 |-> globals, e0 |-> exc]
    /\ exc' = r.exc
    /\ globals' = globals \cup r.defines
    /\ UNCHANGED <<gateVars, brVars, arVars>>

tok_coerce_string ==
  \E v \in CoerceInputs, fault \in Faults :
    LET r == coerce_string(exc, v, fault) IN
    /\ last' = [op |-> "coerce_string", in |-> TokIn("", NoSource, NoName, v, fault),
                r |-> r, g0 |-> globals, e0 |-> exc]
    /\ exc' = r.exc
    /\ globals' = globals \cup r.defines
    /\ UNCHANGED <<gateVars, brVars, arVars>>

tok_coerce_i32 ==
  \E v \in CoerceInputs, fault \in Faults :
    LET r == coerce_num(exc, "Int32", v, fault) IN
    /\ last' = [op |-> "coerce_i32", in |-> TokIn("", NoSource, NoName, v, fault),
                r |-> r, g0 |-> globals, e0 |-> exc]
    /\ exc' = r.exc
    /\ globals' = globals \cup r.defines
    /\ UNCHANGED <<gateVars, brVars, arVars>>

tok_coerce_i64 ==
  \E v \in CoerceInputs, fault \in Faults :
    LET r == coerce_num(exc, "Int64", v, fault) IN
    /\ last' = [op |-> "coerce_i64", in |-> TokIn("", NoSource, NoName, v, fault),
                r |-> r, g0 |-> globals, e0 |-> exc]
    /\ exc' = r.exc
    /\ globals' = globals \cup r.defines
    /\ UNCHANGED <<gateVars, brVars, arVars>>

tok_coerce_u64 ==
  \E v \in CoerceInputs, fault \in Faults :
    LET r == coerce_num(exc, "Index", v, fault) IN
    /\ last' = [op |-> "coerce_u64", in |-> TokIn("", NoSource, NoName, v, fault),
                r |-> r, g0 |-> globals, e0 |-> exc]
    /\ exc' = r.exc
    /\ globals' = globals \cup r.defines
    /\ UNCHANGED <<gateVars, brVars, arVars>>

tok_coerce_f64 ==
  \E v \in CoerceInputs, fault \in Faults :
    LET r == coerce_num(exc, "Float64", v, fault) IN
    /\ last' = [op |-> "coerce_f64", in |-> TokIn("", NoSource, NoName, v, fault),
                r |-> r, g0 |-> globals, e0 |-> exc]
    /\ exc' = r.exc
    /\ globals' = globals \cup r.defines
    /\ UNCHANGED <<gateVars, brVars, arVars>>

tok_coerce_bool ==
  \E v \in CoerceInputs, fault \in Faults :
    LET r == coerce_bool(exc, v, fault) IN
    /\ last' = [op |-> "coerce_bool", in |-> TokIn("", NoSource, NoName, v, fault),
                r |-> r, g0 |-> globals, e0 |-> exc]
    /\ exc' = r.exc
    /\ globals' = globals \cup r.defines
    /\ UNCHANGED <<gateVars, brVars, arVars>>

\* ---------------------------------------------------------------- arrays
\* A u32 as hi * 2^31 + lo with hi \in {0, 1} and lo \in 0 .. 2^31 - 1.
INT32_MAX == 2147483647

U32(hi, lo) == [hi |-> hi, lo |-> lo]

Less(a, b) == a.hi < b.hi \/ (a.hi = b.hi /\ a.lo < b.lo)

Succ(a) == IF a.lo = INT32_MAX THEN U32(a.hi + 1, 0) ELSE U32(a.hi, a.lo + 1)

Larger(a, b) == IF Less(a, b) THEN b ELSE a

MaxIdx == 2

\* array indices a script assigns: small ones, 2^31 - 1 and 2^32 - 2
ArrayIndices ==
  {U32(0, n) : n \in 0..MaxIdx} \cup {U32(0, INT32_MAX), U32(1, INT32_MAX - 1)}

\* every legal length: 0, the successors of the indices (up to 2^32 - 1)
Lengths == {U32(0, 0)} \cup {Succ(i) : i \in ArrayIndices}

\* the u32 indices a host passes to get
HostIndices == ArrayIndices \cup {U32(1, INT32_MAX)}

Elements == {JsInt(4), JsString("b")}

\* JS_NewUint32: an Int-tagged value up to INT32_MAX, a Float64 above
\* (the float 2^31 + i)
JS_NewUint32(n) == IF n.hi = 0 THEN JsInt(n.lo) ELSE [Js("float") EXCEPT !.i = n.lo]

\* qjs::JS_GetPropertyStr(ctx, v, "length") of an array
JS_GetPropertyStr_length(a) == JS_NewUint32(a.len)

JS_IsInt(val) == val.tag = "int"

\* Array::len
Array_len(a) ==
  LET val == JS_GetPropertyStr_length(a) IN
  IF ~JS_IsInt(val) THEN [panic |-> TRUE, len |-> U32(0, 0)]
  ELSE [panic |-> FALSE, len |-> U32(0, val.i)]

\* Array::is_empty
Array_is_empty(a) ==
  LET l == Array_len(a) IN [panic |-> l.panic, empty |-> ~l.panic /\ l.len = U32(0, 0)]

\* qjs::JS_GetPropertyUint32: the element, or undefined for a hole and for
\* an index past the end
JS_GetPropertyUint32(a, idx) ==
  IF idx \in DOMAIN a.elems THEN a.elems[idx] ELSE JsUndefined

\* a get that checks the index against the length and refuses past the end
Array_get_checked(a, V, idx) ==
  IF ~Less(idx, a.len) THEN Err(FromJs("undefined", V))
  ELSE LET val == Value_from_js_value(JS_GetPropertyUint32(a, idx)) IN
       IF ~val.ok THEN val ELSE V_from_js(V, val.val)

\* Array::get
Array_get(a, V, idx) ==
  LET val == Value_from_js_value(JS_GetPropertyUint32(a, idx)) IN
  IF ~val.ok THEN val ELSE V_from_js(V, val.val)

NoArrayIn == [V |-> "", idx |-> U32(0, 0)]

NoArrayOut == [panic |-> FALSE, len |-> U32(0, 0), empty |-> FALSE, r |-> Ok(JsUndefined)]

InitArray ==
  /\ arr = [len |-> U32(0, 0), elems |-> [i \in {} |-> JsUndefined]]
  /\ arOp = "none"
  /\ arIn = NoArrayIn
  /\ arOut = NoArrayOut

\* the script does a[i] = v
script_assign ==
  \E i \in ArrayIndices, v \in Elements :
    /\ arr' = [len |-> Larger(arr.len, Succ(i)),
               elems |-> [j \in DOMAIN arr.elems \cup {i} |->
                            IF j = i THEN v ELSE arr.elems[j]]]
    /\ arOp' = "assign"
    /\ arIn' = [NoArrayIn EXCEPT !.idx = i]
    /\ arOut' = NoArrayOut
    /\ UNCHANGED <<gateVars, tokVars, brVars>>

\* the script does a.length = n
script_set_length ==
  \E n \in Lengths :
    /\ arr' = [len |-> n,
               elems |-> [j \in {k \in DOMAIN arr.elems : Less(k, n)} |-> arr.elems[j]]]
    /\ arOp' = "set_length"
    /\ arIn' = [NoArrayIn EXCEPT !.idx = n]
    /\ arOut' = NoArrayOut
    /\ UNCHANGED <<gateVars, tokVars, brVars>>

call_len ==
  LET l == Array_len(arr) IN
  /\ arOp' = "len"
  /\ arIn' = NoArrayIn
  /\ arOut' = [NoArrayOut EXCEPT !.panic = l.panic, !.len = l.len]
  /\ UNCHANGED <<arr, gateVars, tokVars, brVars>>

call_is_empty ==
  LET e == Array_is_empty(arr) IN
  /\ arOp' = "is_empty"
  /\ arIn' = NoArrayIn
  /\ arOut' = [NoArrayOut EXCEPT !.panic = e.panic, !.empty = e.empty]
  /\ UNCHANGED <<arr, gateVars, tokVars, brVars>>

call_get ==
  \E V \in ReqTypes, idx \in HostIndices :
    /\ arOp' = "get"
    /\ arIn' = [V |-> V, idx |-> idx]
    /\ arOut' = [NoArrayOut EXCEPT !.r = Array_get(arr, V, idx)]
    /\ UNCHANGED <<arr, gateVars, tokVars, brVars>>

\* ---------------------------------------------------------------- specifications
Init == InitGate /\ InitToken /\ InitBridge /\ InitArray

Spec == Init /\ [][Next]_vars

NextToken ==
  \/ tok_eval
  \/ tok_compile
  \/ tok_coerce_string
  \/ tok_coerce_i32
  \/ tok_coerce_i64
  \/ tok_coerce_u64
  \/ tok_coerce_f64
  \/ tok_coerce_bool

SpecToken == Init /\ [][NextToken]_vars

NextBridge ==
  \/ call_from_js
  \/ call_into_js
  \/ call_throw
  \/ call_round_trip

SpecBridge == Init /\ [][NextBridge]_vars

NextArray ==
  \/ script_assign
  \/ script_set_length
  \/ call_len
  \/ call_is_empty
  \/ call_get

SpecArray == Init /\ [][NextArray]_vars

\* ---------------------------------------------------------------- C1
InBody(t) == pc[t] \in {"body", "deadlocked"}

\* C1: at most one `with` closure body is executing at any moment, for
\* invocations on the same Context or on sibling Contexts of one Runtime.
C1_ExclusiveWith == Cardinality({t \in Threads : InBody(t)}) <= 1

\* a closure body is running while another thread waits to enter its own
C1_Witness ==
  \E t, u \in Threads :
    /\ pc[t] = "body" /\ bodyOps[t] > 0
    /\ pc[u] = "lock" /\ op[u].kind = "with"

\* ---------------------------------------------------------------- C2
AtNative(t) == pc[t] \in {"native", "body", "deadlocked"}

\* C2: every native call of base, full, set_max_stack_size,
\* enable_big_num_ext, the body of `with` and Context drop runs while the
\* calling thread holds the gate, and no Context is freed while another
\* thread is inside a gated operation of the same Runtime.
C2_NativeUnderGate ==
  /\ \A t \in Threads : AtNative(t) => lockOwner = {t}
  /\ \A t, u \in Threads :
       (t # u /\ pc[t] = "native" /\ op[t].kind = "drop") => ~AtNative(u)

\* a Context is about to be freed while another thread waits for a `with`
C2_Witness ==
  \E t, u \in Threads :
    /\ pc[t] = "native" /\ op[t].kind = "drop"
    /\ pc[u] = "lock" /\ op[u].kind = "with"

\* ---------------------------------------------------------------- C3
GateIdle == \A t \in Threads : pc[t] \in {"idle", "lock", "panicked"}

\* C3: after a `with` invocation ends, by return or by unwinding, the gate is
\* free and a later gated operation acquires it and completes.
C3_ReleasedOnEveryExit ==
  /\ GateIdle => lockOwner = {}
  /\ \A t \in Threads : res[t] # "PoisonError"

\* ---------------------------------------------------------------- C5
NativeFailed(r) == r.called /\ (r.status < 0 \/ r.native.tag = "exception")

HostStringInvalid ==
  \/ last.op \in {"eval", "compile"} /\ last.in.source.nul
  \/ last.op = "compile" /\ last.in.name.nul

ConversionFails ==
  /\ last.op = "eval"
  /\ last.r.called
  /\ ~NativeFailed(last.r)
  /\ ~CanRepresent(last.in.V, last.r.native)

\* what Ok carries: the native result (for coerce_bool, status = 1)
CarriesNativeResult ==
  last.r.ok =>
    /\ last.r.called
    /\ last.r.val = IF last.op = "coerce_bool" THEN HBool(last.r.status = 1)
                    ELSE last.r.native
    /\ last.r.val.tag # "exception"

NoDefaultOnFailure ==
  ~last.r.ok =>
    /\ last.r.val = JsUndefined
    /\ last.r.err.kind \in {"InvalidString", "Unknown", "Exception", "FromJs"}

OnePlusOne ==
  (/\ last.op = "eval" /\ last.in.source = [script |-> "1+1", nul |-> FALSE]
   /\ last.in.fault = "none")
    => last.r.ok /\ last.r.val = JsInt(2)

\* C5 (as claimed): a fallible token operation returns Err exactly when the
\* native call signals failure, and otherwise Ok carrying the native result;
\* on failure it returns no default value and no raw sentinel.
C5_ErrIffNativeFailure ==
  last.op # "none" =>
    /\ ~last.r.ok <=> NativeFailed(last.r)
    /\ CarriesNativeResult
    /\ NoDefaultOnFailure
    /\ OnePlusOne

\* C5 (amended): a fallible token operation returns Err exactly when the
\* native call signals failure, or a host string of eval / compile has an
\* interior NUL, or eval's result does not convert to the requested type;
\* otherwise it returns Ok carrying the native result.
C5_ErrIffFailure ==
  last.op # "none" =>
    /\ ~last.r.ok <=> (NativeFailed(last.r) \/ HostStringInvalid \/ ConversionFails)
    /\ CarriesNativeResult
    /\ NoDefaultOnFailure
    /\ OnePlusOne

\* coerce_i32 on a value whose conversion throws returned Err, not 0
C5_Witness ==
  /\ last.op = "coerce_i32"
  /\ last.in.v = JsSymbol
  /\ last.r.status < 0
  /\ ~last.r.ok
  /\ last.r.err.kind = "Exception"

\* ---------------------------------------------------------------- C6
\* C6: when the native call of a token operation returns the failure
\* sentinel, the operation returns the bridge's conversion of the pending
\* exception, or Unknown when none is pending, and the slot is empty after
\* every token operation.
C6_ExceptionRetrieval ==
  /\ exc = <<>>
  /\ (last.op # "none" /\ NativeFailed(last.r)) =>
       /\ ~last.r.ok
       /\ last.r.thrown = <<>> => last.r.err = Unknown
       /\ last.r.thrown # <<>> => last.r.err = Error_from_js(last.r.thrown[1]).val

\* coerce_u64 of -1: the pending RangeError came back as an Exception error
C6_Witness ==
  /\ last.op = "coerce_u64"
  /\ last.r.thrown = <<RangeErrorObj("invalid array index")>>
  /\ last.r.err = Exception("invalid array index", "", -1, "")
  /\ exc = <<>>

\* ---------------------------------------------------------------- C7
Readable(obj, name, ty) ==
  /\ name \in DOMAIN obj.props
  /\ obj.props[name].st = "present"
  /\ obj.props[name].tag = ty

FieldStr(obj, name) == IF Readable(obj, name, "string") THEN obj.props[name].s ELSE ""

FieldInt(obj, name) == IF Readable(obj, name, "int") THEN obj.props[name].i ELSE -1

ErrorLike(v) == v.tag = "object" /\ v.class # ""

\* C7: converting an error-like object always succeeds with an Exception
\* whose fields are the object's message, fileName, lineNumber and stack
\* where present and readable, and "" / -1 where absent or unreadable.
C7_InboundErrorLike ==
  (brOp = "from_js" /\ ErrorLike(brIn.val)) =>
    /\ brOut.r.ok
    /\ brOut.r.val = Exception(FieldStr(brIn.val, "message"),
                               FieldStr(brIn.val, "fileName"),
                               FieldInt(brIn.val, "lineNumber"),
                               FieldStr(brIn.val, "stack"))

\* message read, fileName absent, lineNumber's getter throws
C7_Witness ==
  /\ brOp = "from_js"
  /\ ErrorLike(brIn.val)
  /\ DOMAIN brIn.val.props = {"message", "lineNumber"}
  /\ brIn.val.props["lineNumber"].st = "throws"
  /\ brOut.r = Ok(Exception("boom", "", -1, ""))

\* ---------------------------------------------------------------- C8
\* C8 (as claimed): every thrown value that is not an error-like object,
\* plain object or primitive, converts to FromJs{"object", "error", None}.
C8_NotErrorLikeAny ==
  (brOp = "from_js" /\ ~ErrorLike(brIn.val)) =>
    brOut.r = Err(FromJs("object", "error"))

\* C8 (amended): every thrown object that is not error-like converts to
\* FromJs{"object", "error", None}; a thrown value that is no object fails
\* with the error of Object::from_js instead.
C8_NotErrorLikeObject ==
  /\ (brOp = "from_js" /\ brIn.val.tag = "object" /\ ~ErrorLike(brIn.val)) =>
       brOut.r = Err(FromJs("object", "error"))
  /\ (brOp = "from_js" /\ brIn.val.tag # "object") =>
       brOut.r = Object_from_js(brIn.val)

\* a plain object carrying a message was refused
C8_Witness ==
  /\ brOp = "from_js"
  /\ brIn.val.tag = "object" /\ brIn.val.class = ""
  /\ "message" \in DOMAIN brIn.val.props
  /\ brOut.r = Err(FromJs("object", "error"))

\* ---------------------------------------------------------------- C9
StringShaped == {"InvalidString", "Utf8", "FromJs", "IntoJs"}

MappedAsListed(e, t) ==
  /\ e.kind = "Allocation" => t.native = "JS_ThrowOutOfMemory"
  /\ e.kind \in StringShaped =>
       /\ t.native = "JS_ThrowTypeError"
       /\ t.pending = JsObject("TypeError", [n \in {"message"} |-> PStr(Display(e))])
  /\ e.kind = "Exception" =>
       /\ t.native = "JS_Throw"
       /\ t.pending.tag = "object" /\ t.pending.class = "Error"
       /\ FieldStr(t.pending, "message") = e.message
       /\ FieldStr(t.pending, "fileName") = e.file
       /\ FieldInt(t.pending, "lineNumber") = (IF e.line >= 0 THEN e.line ELSE -1)
       /\ FieldStr(t.pending, "stack") = e.stack

InternalErrorOf(e, t) ==
  /\ t.native = "JS_ThrowInternalError"
  /\ t.pending = JsObject("InternalError", [n \in {"message"} |-> PStr(Display(e))])

\* C9 (as claimed): throw maps Allocation to out-of-memory, the string and
\* conversion kinds to a TypeError with the display text, Exception to a
\* native Error object, and every other kind to an InternalError.
C9_OtherKindsInternalError ==
  (brOp = "throw" /\ ~brOut.t.panic) =>
    /\ MappedAsListed(brIn.err, brOut.t)
    /\ brIn.err.kind \notin ({"Allocation", "Exception"} \cup StringShaped) =>
         InternalErrorOf(brIn.err, brOut.t)

\* C9 (amended): as claimed for Allocation, the string and conversion kinds
\* and Exception; of the other kinds Unknown becomes an InternalError with
\* the display text and IO is thrown as a native Error object whose message
\* is the display text.
C9_KindMapping ==
  (brOp = "throw" /\ ~brOut.t.panic) =>
    /\ MappedAsListed(brIn.err, brOut.t)
    /\ brIn.err.kind = "Unknown" => InternalErrorOf(brIn.err, brOut.t)
    /\ brIn.err.kind = "IO" =>
         /\ brOut.t.native = "JS_Throw"
         /\ brOut.t.pending =
              JsObject("Error", [n \in {"message"} |-> PStr(Display(brIn.err))])

\* an IO error was thrown as an Error object
C9_Witness ==
  /\ brOp = "throw"
  /\ brIn.err.kind = "IO"
  /\ ~brOut.t.panic
  /\ brOut.t.pending.class = "Error"

\* ---------------------------------------------------------------- C10
Populated(e) ==
  {n \in PropNames :
     \/ n = "message" /\ e.message # ""
     \/ n = "fileName" /\ e.file # ""
     \/ n = "lineNumber" /\ e.line >= 0
     \/ n = "stack" /\ e.stack # ""}

FieldOf(e, n) ==
  CASE n = "message" -> PStr(e.message)
    [] n = "fileName" -> PStr(e.file)
    [] n = "lineNumber" -> PInt(e.line)
    [] OTHER -> PStr(e.stack)

WrittenNames(j) == {j.written[k][1] : k \in 1..Len(j.written)}

\* C10: converting Exception{message, file, line, stack} creates a native
\* Error object and writes message, fileName, stack only when non-empty and
\* lineNumber only when line >= 0, and writes no other property.
C10_FieldPopulation ==
  (brOp = "into_js" /\ brIn.err.kind = "Exception" /\ ~brIn.newFails) =>
    /\ brOut.j.val.tag = "object" /\ brOut.j.val.class = "Error"
    /\ WrittenNames(brOut.j) \subseteq Populated(brIn.err)
    /\ DOMAIN brOut.j.val.props = WrittenNames(brOut.j)
    /\ \A n \in WrittenNames(brOut.j) : brOut.j.val.props[n] = FieldOf(brIn.err, n)
    /\ brOut.j.ok => WrittenNames(brOut.j) = Populated(brIn.err)

\* line 0 was written, the empty file and stack were not
C10_Witness ==
  /\ brOp = "into_js"
  /\ brIn.err = Exception("boom", "", 0, "")
  /\ brOut.j.ok
  /\ DOMAIN brOut.j.val.props = {"message", "lineNumber"}
  /\ brOut.j.val.props["lineNumber"] = PInt(0)

\* ---------------------------------------------------------------- C11
\* C11: an Exception converted to an engine value, thrown, caught and
\* converted back is an Exception whose non-empty / non-negative fields equal
\* the originals and whose empty / negative fields are the defaults "" and -1.
C11_ExceptionRoundTrip ==
  (brOp = "round_trip" /\ brIn.err.kind = "Exception" /\ ~brOut.t.panic) =>
    /\ brOut.r.ok
    /\ brOut.r.val = Exception(brIn.err.message, brIn.err.file,
                               IF brIn.err.line >= 0 THEN brIn.err.line ELSE -1,
                               brIn.err.stack)
    /\ DOMAIN brOut.t.pending.props = Populated(brIn.err)

\* "boom" came back with file "", line -1 and stack ""
C11_Witness ==
  /\ brOp = "round_trip"
  /\ brIn.err = Exception("boom", "", -1, "")
  /\ DOMAIN brOut.t.pending.props = {"message"}
  /\ brOut.r = Ok(Exception("boom", "", -1, ""))

\* ---------------------------------------------------------------- C18
IsException(v) == v.tag = "object" /\ v.class # ""

\* C18: Error::throw completes without panicking for every host error kind
\* and leaves one exception pending, also when building the native Error
\* object or setting one of its properties fails.
C18_ThrowTotal ==
  brOp = "throw" =>
    /\ ~brOut.t.panic
    /\ IsException(brOut.t.pending)
    /\ brOut.t.ret = JS_EXCEPTION

\* ----------------------------------------------------------------------
\* Creation of a Context
Creating(t) == op[t].kind \in {"base", "full"}

\* a thread whose closure unwound while it held the guard
Unwound(t) == pc[t] = "panicked" /\ res[t] \in {"unwound", "relock panic"}

\* C12: base and full return Err(Allocation) exactly when the native creation
\* returned null and otherwise a Context; after the failure no Context value
\* exists and no native context was made or freed for it, the gate is released
\* when the call returns, and the failure does not poison the gate (the gate
\* is poisoned only by a closure that unwound).
C12_AllocationFailure ==
  /\ \A t \in Threads :
       /\ (Creating(t) /\ pc[t] = "unlock") =>
            /\ res[t] = "Err(Allocation)" <=> ctxState[op[t].ctx] = "unborn"
            /\ res[t] = "Err(Allocation)" => ~ctxValue[op[t].ctx]
            /\ res[t] # "Err(Allocation)" =>
                 res[t] = "Ok" /\ ctxValue[op[t].ctx] /\ ctxState[op[t].ctx] = "live"
       /\ (pc[t] = "idle" /\ res[t] = "Err(Allocation)") => t \notin lockOwner
  /\ \A c \in Contexts : ctxState[c] = "unborn" /\ ContextFree(c) => ~ctxValue[c]
  /\ poisoned => \E t \in Threads : Unwound(t)

\* A creation failed and returned, and afterwards another thread entered a
\* closure on the same engine.
C12_Witness ==
  \E t, u \in Threads :
    /\ pc[t] = "idle" /\ res[t] = "Err(Allocation)"
    /\ pc[u] = "body" /\ u \in lockOwner
    /\ ~poisoned
    /\ \E c \in Contexts : ctxState[c] = "unborn" /\ ~ctxValue[c]

\* ----------------------------------------------------------------------
\* Lifetime of the engine
LiveContexts == {c \in Contexts : ctxValue[c]}

\* C16: while some Context exists the engine is not destroyed, also after the
\* Runtime handle was dropped; the engine is destroyed exactly when the
\* Runtime handle and every Context are gone.
C16_EngineOutlivesContexts ==
  /\ LiveContexts # {} => engine = "alive"
  /\ engine = "destroyed" <=> (~rtHandle /\ LiveContexts = {})
  /\ arc = Cardinality(LiveContexts) + (IF rtHandle THEN 1 ELSE 0)

\* The Runtime handle is gone and a closure runs on a surviving Context.
C16_Witness ==
  /\ ~rtHandle
  /\ engine = "alive"
  /\ \E t \in Threads : pc[t] = "body" /\ ctxValue[op[t].ctx]

\* ----------------------------------------------------------------------
\* Gated operations inside a closure
\* C19: a gated operation issued from inside a `with` closure completes and
\* the outer `with` returns: no closure ends blocked on the gate its own
\* thread holds, or unwound by the second lock().
C19_NestedGatedTerminates ==
  \A t \in Threads : pc[t] # "deadlocked" /\ res[t] # "relock panic"

\* ----------------------------------------------------------------------
\* Threads whose closures return normally and make no gated call
NextQuiet ==
  \E t \in Threads :
    \/ \E c \in Contexts : base(t, c)
    \/ \E c \in Contexts : full(t, c)
    \/ \E c \in Contexts : set_max_stack_size(t, c)
    \/ \E c \in Contexts : enable_big_num_ext(t, c)
    \/ \E c \in Contexts : with(t, c)
    \/ \E c \in Contexts : drop(t, c)
    \/ Runtime_drop(t)
    \/ lock_unwrap(t)
    \/ JS_NewContext(t)
    \/ JS_SetMaxStackSize(t)
    \/ JS_EnableBignumExt(t)
    \/ JS_FreeContext(t)
    \/ f_native(t)
    \/ f_return(t)
    \/ drop_guard(t)

\* Fair gate acquisition; every started native call, closure and guard drop
\* runs to its end.
Fairness ==
  \A t \in Threads :
    /\ SF_vars(lock_unwrap(t))
    /\ WF_vars(JS_NewContext(t))
    /\ WF_vars(JS_SetMaxStackSize(t))
    /\ WF_vars(JS_EnableBignumExt(t))
    /\ WF_vars(JS_FreeContext(t))
    /\ WF_vars(f_return(t))
    /\ WF_vars(drop_guard(t))

SpecLive == Init /\ [][NextQuiet]_vars /\ Fairness

Waiting(t) == pc[t] = "lock"

\* the gate is free, or its holder is inside its operation
GateMoves ==
  \/ lockOwner = {}
  \/ \E u \in lockOwner : pc[u] \in {"native", "body", "unlock"}

\* C20: with closures that return normally and make no gated call, a waiting
\* operation is never stuck behind a gate nobody will release, and under fair
\* acquisition every waiting operation acquires the gate and completes.
C20_NoDeadlock ==
  /\ []((\E t \in Threads : Waiting(t)) => (~poisoned /\ GateMoves))
  /\ \A t \in Threads : Waiting(t) ~> (pc[t] = "idle" /\ res[t] \in {"Ok", "Err(Allocation)"})

\* One thread waits for the gate while another is inside a closure.
C20_Witness ==
  \E t, u \in Threads : Waiting(t) /\ pc[u] = "body" /\ u \in lockOwner

\* ----------------------------------------------------------------------
\* Compiling a module
\* C13: compile does not execute the module: after it returns, Ok with a
\* Module or Err, the script-visible state of the context (the globals a
\* module body would define) is what it was before the call.
C13_CompileDoesNotExecute ==
  last.op = "compile" =>
    /\ globals = last.g0
    /\ last.r.defines = {}
    /\ last.r.ok => last.r.val = JsModule

\* A module whose body would define a global was compiled into a Module and
\* the global is not defined.
C13_Witness ==
  /\ last.op = "compile"
  /\ last.in.source = [script |-> "globalThis.x = 1", nul |-> FALSE]
  /\ last.r.ok /\ last.r.val = JsModule
  /\ "x" \notin globals

\* ----------------------------------------------------------------------
\* Host strings with an interior NUL
NulIn(in) == in.source.nul \/ in.name.nul

\* C17: eval or compile of a source with an interior NUL, and compile with a
\* module name with an interior NUL, return InvalidString without a call of
\* the native evaluator and leave the globals and the pending-exception slot
\* as they were; compile rejects the name before it looks at the source.
C17_NulRejectedFirst ==
  (last.op \in {"eval", "compile"} /\ NulIn(last.in)) =>
    /\ ~last.r.ok
    /\ last.r.err.kind = "InvalidString"
    /\ ~last.r.called
    /\ exc = last.e0
    /\ globals = last.g0
    /\ last.r.err = NulError(IF last.in.name.nul THEN last.in.name.text
                             ELSE last.in.source.script)

\* compile got a NUL in both the name and the source, on a context that has
\* globals defined: the error is the one of the name.
C17_Witness ==
  /\ last.op = "compile"
  /\ last.in.name.nul /\ last.in.source.nul
  /\ last.in.source.script = "1+1"
  /\ last.r.err = NulError("test_mod")
  /\ globals = {"x"}

\* ----------------------------------------------------------------------
\* Arrays
Assigned(idx) == idx \in DOMAIN arr.elems

\* C14: len() returns the live length of every array a script can produce,
\* which is past every assigned index, and never fails its assertion, for
\* every length in 0 .. 2^32 - 1.
C14_LenTotal ==
  arOp = "len" =>
    /\ ~arOut.panic
    /\ arOut.len = arr.len
    /\ \A i \in DOMAIN arr.elems : Less(i, arr.len)

\* what the engine holds at an index
ElementAt(idx) == IF Assigned(idx) THEN arr.elems[idx] ELSE JsUndefined

\* C15: get::<T>(idx) makes no bounds check: it returns the conversion of the
\* element at an assigned index and the conversion of Undefined for a hole or
\* an index past the end, Ok when T can represent the value and a conversion
\* error when it cannot; it never panics and never returns a default.
C15_GetUnchecked ==
  arOp = "get" =>
    /\ ~arOut.panic
    /\ ~Less(arIn.idx, arr.len) => ElementAt(arIn.idx) = JsUndefined
    /\ arOut.r.ok <=> (arIn.V = "Value" \/ ElementAt(arIn.idx).tag = "int")
    /\ arOut.r.ok => arOut.r.val = ElementAt(arIn.idx)
    /\ ~arOut.r.ok => arOut.r.val = FromJs(type_name(ElementAt(arIn.idx)), arIn.V)

\* On a sparse array of length 3, get of the hole at 1 as a Value gave
\* Undefined.
C15_Witness ==
  /\ arOp = "get"
  /\ arr.len = U32(0, 3)
  /\ Assigned(U32(0, 2)) /\ ~Assigned(U32(0, 1))
  /\ arIn = [V |-> "Value", idx |-> U32(0, 1)]
  /\ arOut.r = Ok(JsUndefined)

\* ----------------------------------------------------------------------
\* Freeing of native contexts
FreedAtMostOnce == \A c \in Contexts : frees[c] <= 1

NeverFreedUnborn == \A c \in Contexts : ctxState[c] = "unborn" => frees[c] = 0

\* a Context that was created and whose value is gone was freed
FreedAtDrop ==
  \A c \in Contexts :
    (ctxState[c] # "unborn" /\ ~ctxValue[c]) => (frees[c] = 1 /\ ctxState[c] = "freed")

NoUseAfterFree ==
  \A t \in Threads :
    (op[t].kind \in {"with", "set_max_stack_size", "enable_big_num_ext"}
       /\ pc[t] \in {"native", "body"}) => ctxState[op[t].ctx] = "live"

\* C21: JS_FreeContext is called once for every Context that was created, at
\* its drop, and never for a failed creation, and no with, set_max_stack_size
\* or enable_big_num_ext runs on a native context that was freed.
C21_FreedExactlyOnce ==
  /\ FreedAtMostOnce
  /\ NeverFreedUnborn
  /\ FreedAtDrop
  /\ NoUseAfterFree

====
